---- MODULE Spec2Model ----
(***************************************************************************)
(* Loop analysis engine and resumable batch pipeline of loop-explore.      *)
(*                                                                         *)
(* Two specifications share this module:                                   *)
(*   SpecWalk  the syntax tree walker and the loop feature extractor of    *)
(*             src/src/loop_analyzer.py, run over every well-formed tree   *)
(*             of at most MaxNodes nodes, one _analyze_cursor call a step;  *)
(*   Spec      the orchestrator main() of src/loop_extractor.py with the   *)
(*             checkpoint and output artifacts of src/src/json_output.py.  *)
(***************************************************************************)
EXTENDS Integers, Sequences, FiniteSets, TLC

VARIABLES
  tree,            \* the translation unit handed to analyze_file (SpecWalk)
  stack,           \* pending _analyze_cursor calls, next call first
  file_analysis,   \* the file_analysis dict under construction
  wpc              \* position of analyze_file: "parse", "walk", "done"

wvars == <<tree, stack, file_analysis, wpc>>

VARIABLES
  \* inputs of main(), the same in every invocation
  discovered,        \* FileDiscovery.discover_files(): the ordered file list
  parse_ok,          \* per file: does ASTParser.parse_file return a unit
  freq,              \* args.checkpoint_frequency
  \* the file system, kept from one invocation to the next
  ckpt_file,         \* the artifact at checkpoint_file
  out_file,          \* the artifact at args.output
  other_ckpt,        \* the checkpoint artifact that goes with another --output
  other_out,         \* the artifact at that other --output
  \* the locals of main() in the current invocation
  pc,                \* "idle", "loop", "exit"
  exit_code,
  resume_data,
  source_files,
  start_index,
  loop_i,            \* i of the file loop: files of source_files handled so far
  analysis_results,
  total_loops,
  processed_count,
  total_files,
  \* history
  run,               \* invocations started so far
  last,              \* what the last step did
  parsed,            \* files handed to parse_file in the current invocation
  save_log,          \* the last two save_checkpoint calls of the invocation
  faults             \* failed writes and KeyboardInterrupts so far

ovars == <<discovered, parse_ok, freq, ckpt_file, out_file, other_ckpt, other_out,
           pc, exit_code,
           resume_data, source_files, start_index, loop_i, analysis_results,
           total_loops, processed_count, total_files, run, last, parsed,
           save_log, faults>>

VARIABLES
  body_walk        \* one node met by the body-walk of a loop (SpecText)

vars == <<wvars, ovars, body_walk>>

(***************************************************************************)
(* Bounds                                                                  *)
(***************************************************************************)
MaxNodes == 7      \* nodes of a syntax tree (SpecWalk)
MaxFiles == 3      \* files File Discovery returns
MaxFreq == 2       \* largest --checkpoint-frequency (1 is the other one tried)
MaxRuns == 2       \* invocations of main() in one behaviour
MaxFaults == 1     \* failing writes and cancellations in one behaviour
MaxLen == 4        \* characters of the source text of a node (SpecText)

(***************************************************************************)
(* Syntax trees as the front-end delivers them.  A tree is a sequence of   *)
(* nodes in pre-order; node 1 is the translation unit.  A node's source    *)
(* line is its pre-order index, so spans of siblings are disjoint and a    *)
(* node's span is [index, index of its last descendant].                   *)
(***************************************************************************)
LoopKinds == {"FOR_STMT", "WHILE_STMT", "DO_STMT", "CXX_FOR_RANGE_STMT"}
DeclKinds == {"FUNCTION_DECL", "FUNCTION_TEMPLATE", "CLASS_DECL", "CXX_METHOD"}
\* "UNKNOWN" is a cursor whose kind id the bindings do not know: reading
\* cursor.kind raises ValueError
ExprKinds == {"BINARY_OPERATOR", "UNARY_OPERATOR", "DECL_REF_EXPR", "CALL_EXPR", "UNKNOWN"}
BodyKinds == LoopKinds \cup {"COMPOUND_STMT"} \cup ExprKinds
FunctionLike == {"FUNCTION_DECL", "FUNCTION_TEMPLATE", "CXX_METHOD"}

\* self.LOOP_TYPES
LOOP_TYPES(kind) ==
  CASE kind = "FOR_STMT" -> "for_loop"
    [] kind = "WHILE_STMT" -> "while_loop"
    [] kind = "DO_STMT" -> "do_while_loop"
    [] kind = "CXX_FOR_RANGE_STMT" -> "range_for_loop"

FuncNames == {"f", "g"}

NamesOf(kind) ==
  CASE kind = "FUNCTION_DECL" -> FuncNames
    [] kind = "FUNCTION_TEMPLATE" -> {"t"}
    [] kind = "CLASS_DECL" -> {"A"}
    [] kind = "CXX_METHOD" -> {"m"}
    [] kind = "CALL_EXPR" -> {"h"}
    [] OTHER -> {""}

\* kinds the grammar allows below a node of kind pk
ChildKinds(pk) ==
  CASE pk = "TRANSLATION_UNIT" -> DeclKinds
    [] pk = "CLASS_DECL" -> {"CXX_METHOD"}
    [] pk \in FunctionLike -> {"COMPOUND_STMT", "UNKNOWN"}
    [] pk = "COMPOUND_STMT" -> BodyKinds
    [] pk \in LoopKinds -> BodyKinds
    [] OTHER -> {}

\* cursor.get_children()
Children(t, n) == SelectSeq([i \in 1..Len(t) |-> i], LAMBDA i : t[i].parent = n)

RECURSIVE Ancestors(_, _)
Ancestors(t, n) ==
  IF n = 0 \/ t[n].parent = 0 THEN {} ELSE {t[n].parent} \cup Ancestors(t, t[n].parent)

RECURSIVE LastDescendant(_, _)
LastDescendant(t, n) ==
  LET kids == Children(t, n)
  IN IF kids = <<>> THEN n ELSE LastDescendant(t, kids[Len(kids)])

\* ASTParser.get_cursor_location: the extent of the cursor
StartLine(t, n) == n
EndLine(t, n) == LastDescendant(t, n)

\* the child counts and child order clang produces for each statement kind
ShapeOK(t, n) ==
  LET k == t[n].kind
      kids == Children(t, n)
      c == Len(kids)
  IN CASE k \in FunctionLike ->
            \* an optional attribute cursor, then the optional body
            [j \in 1..c |-> t[kids[j]].kind] \in
              { <<>>, <<"COMPOUND_STMT">>, <<"UNKNOWN">>, <<"UNKNOWN", "COMPOUND_STMT">> }
       [] k = "FOR_STMT" ->
            /\ c >= 1 /\ c <= 4
            /\ \A j \in 1..(c - 1) : t[kids[j]].kind \in ExprKinds
       [] k \in {"WHILE_STMT", "CXX_FOR_RANGE_STMT"} ->
            c = 2 /\ t[kids[1]].kind \in ExprKinds
       [] k = "DO_STMT" ->
            c = 2 /\ t[kids[2]].kind \in ExprKinds
       [] OTHER -> TRUE

WellFormed(t) == \A n \in 1..Len(t) : ShapeOK(t, n)

RootOnly == << [kind |-> "TRANSLATION_UNIT", parent |-> 0, name |-> ""] >>

\* the nodes the front-end may deliver next: below a node of the rightmost
\* path, of a kind the grammar allows there
NextNodes(t) ==
  { [kind |-> k, parent |-> p, name |-> nm] :
      <<p, k, nm>> \in { x \in ((Ancestors(t, Len(t)) \cup {Len(t)})
                                 \X (DeclKinds \cup BodyKinds)
                                 \X (FuncNames \cup {"t", "A", "m", "h", ""})) :
                          /\ x[2] \in ChildKinds(t[x[1]].kind)
                          /\ x[3] \in NamesOf(x[2]) } }

(***************************************************************************)
(* The file_analysis dict.  Python dicts keep insertion order and an       *)
(* assignment to an existing key replaces the value in place, so a dict    *)
(* is a sequence of records with distinct names.                           *)
(***************************************************************************)
EmptyAnalysis == [classes |-> <<>>, functions |-> <<>>, global_loops |-> <<>>,
                  total_loops |-> 0]

NoContext == [type |-> "none", name |-> ""]

IndexOf(d, nm) ==
  IF \E i \in 1..Len(d) : d[i].name = nm
  THEN CHOOSE i \in 1..Len(d) : d[i].name = nm
  ELSE 0

\* d[nm] = rec
DictSet(d, rec) ==
  LET i == IndexOf(d, rec.name)
  IN IF i = 0 THEN Append(d, rec) ELSE [d EXCEPT ![i] = rec]

\* the enclosing declaration clang reports as cursor.semantic_parent: for a
\* statement the declaration it belongs to, for a declaration its context
SemanticParent(t, n) ==
  LET ds == { a \in Ancestors(t, n) : t[a].kind \in DeclKinds \cup {"TRANSLATION_UNIT"} }
  IN IF ds = {} THEN 0 ELSE CHOOSE a \in ds : \A b \in ds : b <= a

RECURSIVE LoopsOnSemanticChain(_, _)
LoopsOnSemanticChain(t, p) ==
  IF p = 0 THEN 0
  ELSE (IF t[p].kind \in LoopKinds THEN 1 ELSE 0)
       + LoopsOnSemanticChain(t, SemanticParent(t, p))

_calculate_nesting_level(t, n) == 1 + LoopsOnSemanticChain(t, SemanticParent(t, n))

(***************************************************************************)
(* Source text.  A text is a sequence of one-character strings, "" is <<>>. *)
(***************************************************************************)
Whitespace == {" "}

RECURSIVE LStrip(_)
LStrip(s) == IF s # <<>> /\ Head(s) \in Whitespace THEN LStrip(Tail(s)) ELSE s

RECURSIVE RStrip(_)
RStrip(s) ==
  IF s # <<>> /\ s[Len(s)] \in Whitespace THEN RStrip(SubSeq(s, 1, Len(s) - 1)) ELSE s

\* str.strip()
Strip(s) == RStrip(LStrip(s))

\* pat in text
Contains(text, pat) ==
  \E i \in 1..(Len(text) - Len(pat) + 1) : SubSeq(text, i, i + Len(pat) - 1) = pat

\* text.count(ch) for a one-character ch
Count(text, ch) == Cardinality({ i \in 1..Len(text) : text[i] = ch })

\* text.split(pat)[0]
SplitFirst(text, pat) ==
  LET at == { i \in 1..(Len(text) - Len(pat) + 1) : SubSeq(text, i, i + Len(pat) - 1) = pat }
  IN IF at = {} THEN text
     ELSE SubSeq(text, 1, (CHOOSE i \in at : \A j \in at : i <= j) - 1)

ARITHMETIC_OPS ==
  { <<"+">>, <<"-">>, <<"*">>, <<"/">>, <<"%">>, <<"+", "+">>, <<"-", "-">>,
    <<"+", "=">>, <<"-", "=">>, <<"*", "=">>, <<"/", "=">>, <<"%", "=">> }

LOGICAL_OPS ==
  { <<"&", "&">>, <<"|", "|">>, <<"!">>, <<"=", "=">>, <<"!", "=">>, <<"<">>,
    <<">">>, <<"<", "=">>, <<">", "=">> }

BITWISE_OPS ==
  { <<"&">>, <<"|">>, <<"^">>, <<"~">>, <<"<", "<">>, <<">", ">">>, <<"&", "=">>,
    <<"|", "=">>, <<"^", "=">>, <<"<", "<", "=">>, <<">", ">", "=">> }

\* the keys of loop_info['operations'] in a fresh loop record
FreshOperations == [k \in {"arithmetic", "assignments", "function_calls"} |-> <<>>]

\* d.setdefault(k, []).append(v)
SetDefaultAppend(d, k, v) ==
  IF k \in DOMAIN d THEN [d EXCEPT ![k] = Append(@, v)]
  ELSE [j \in DOMAIN d \cup {k} |-> IF j = k THEN <<v>> ELSE d[j]]

\* the class the substring tests give a binary operator's text
BinaryOpType(source_text) ==
  IF \E op \in ARITHMETIC_OPS : Contains(source_text, op) THEN "arithmetic"
  ELSE IF \E op \in LOGICAL_OPS : Contains(source_text, op) THEN "logical"
  ELSE IF \E op \in BITWISE_OPS : Contains(source_text, op) THEN "bitwise"
  ELSE "unknown"

_analyze_binary_operation(source_text, line, loop_info) ==
  LET op_type == BinaryOpType(source_text)
      operation == [type |-> op_type, expression |-> Strip(source_text), line |-> line]
  IN [loop_info EXCEPT !.operations =
        IF op_type \in DOMAIN @
        THEN [@ EXCEPT ![op_type] = Append(@, operation)]
        ELSE SetDefaultAppend(@, "other", operation)]

_analyze_unary_operation(source_text, line, loop_info) ==
  LET operation == [type |-> "unary", expression |-> Strip(source_text), line |-> line]
  IN [loop_info EXCEPT !.operations = SetDefaultAppend(@, "unary", operation)]

\* the tests, had the one for '*' come first
AccessType_PointerFirst(source_text) ==
  IF Contains(source_text, <<"*">>) THEN "pointer"
  ELSE IF Contains(source_text, <<"[">>) /\ Contains(source_text, <<"]">>)
  THEN IF Count(source_text, "[") = 1 THEN "1d_array"
       ELSE IF Count(source_text, "[") = 2 THEN "2d_array"
       ELSE "multi_array"
  ELSE IF Contains(source_text, <<".">>) \/ Contains(source_text, <<"-", ">">>)
  THEN "struct_member"
  ELSE "variable"

\* the access kind the tests give a stripped, non-empty text
AccessType(source_text) ==
  IF Contains(source_text, <<"[">>) /\ Contains(source_text, <<"]">>)
  THEN IF Count(source_text, "[") = 1 THEN "1d_array"
       ELSE IF Count(source_text, "[") = 2 THEN "2d_array"
       ELSE "multi_array"
  ELSE IF Contains(source_text, <<"*">>) THEN "pointer"
  ELSE IF Contains(source_text, <<".">>) \/ Contains(source_text, <<"-", ">">>)
  THEN "struct_member"
  ELSE "variable"

_analyze_memory_access(raw_text, line, loop_info) ==
  LET source_text == Strip(raw_text)
      variable_name ==
        Strip(SplitFirst(SplitFirst(SplitFirst(source_text, <<"[">>), <<".">>), <<"-", ">">>))
      memory_access == [variable |-> variable_name, access_pattern |-> source_text,
                        access_type |-> AccessType(source_text),
                        stride_pattern |-> "unknown", line |-> line]
  IN IF source_text = <<>> THEN loop_info
     ELSE [loop_info EXCEPT !.memory_access.reads = Append(@, memory_access)]

\* ASTParser.get_source_text for the nodes of a tree: the characters of the
\* file at the cursor's extent.  Expressions are the ones below; a statement
\* is written without the statements inside it.
SourceText(t, n) ==
  CASE t[n].kind = "BINARY_OPERATOR" -> <<"i", " ", "<", " ", "n">>
    [] t[n].kind = "UNARY_OPERATOR" -> <<"i", "+", "+">>
    [] t[n].kind = "DECL_REF_EXPR" -> <<"i">>
    [] t[n].kind = "CALL_EXPR" -> <<t[n].name, "(", ")">>
    [] t[n].kind = "UNKNOWN" -> <<"?">>
    [] t[n].kind = "COMPOUND_STMT" -> <<"{", "}">>
    [] OTHER -> <<"l", "{", "}">>

NoBounds == [initialization |-> <<>>, condition |-> <<>>, increment |-> <<>>,
             estimated_iterations |-> "unknown"]

_extract_loop_bounds(t, n) ==
  LET children == Children(t, n)
      text(c) == Strip(SourceText(t, c))
  IN CASE t[n].kind = "FOR_STMT" /\ Len(children) >= 3 ->
            [NoBounds EXCEPT !.initialization = text(children[1]),
                             !.condition = text(children[2]),
                             !.increment = text(children[3])]
       [] t[n].kind = "WHILE_STMT" /\ Len(children) >= 1 ->
            [NoBounds EXCEPT !.condition = text(children[1])]
       [] t[n].kind = "DO_STMT" /\ Len(children) >= 2 ->
            [NoBounds EXCEPT !.condition = text(children[Len(children)])]
       [] OTHER -> NoBounds

NewLoop(t, n, level) ==
  [loop_id |-> n, type |-> LOOP_TYPES(t[n].kind),
   loop_bounds |-> _extract_loop_bounds(t, n), nesting_level |-> level,
   nested_loops |-> <<>>, operations |-> FreshOperations,
   memory_access |-> [reads |-> <<>>, writes |-> <<>>],
   function_calls |-> <<>>]

\* LoopAnalyzer._analyze_function_call: the callee is cursor.spelling
_analyze_function_call(t, n, loop_info) ==
  LET function_name == IF t[n].name = "" THEN "unknown_function" ELSE t[n].name
      function_call == [function |-> function_name, arguments |-> <<>>, line |-> n]
  IN [loop_info EXCEPT !.operations.function_calls = Append(@, function_call),
                       !.function_calls = Append(@, function_name)]

RECURSIVE _analyze_loop_body_recursive(_, _, _)
RECURSIVE BodyChildren(_, _, _)
RECURSIVE _analyze_loop_body(_, _, _)
\* the body-walk of one node for the loop record loop_info: a loop node
\* becomes a nested record and is not descended into by this walk
_analyze_loop_body_recursive(t, n, loop_info) ==
  IF t[n].kind = "UNKNOWN" THEN loop_info   \* raised and caught at this node
  ELSE IF t[n].kind \in LoopKinds
  THEN LET nested_loop == NewLoop(t, n, loop_info.nesting_level + 1)
       IN [loop_info EXCEPT
             !.nested_loops = Append(@, _analyze_loop_body(t, n, nested_loop))]
  ELSE BodyChildren(t, Children(t, n),
         CASE t[n].kind = "BINARY_OPERATOR" ->
                _analyze_binary_operation(SourceText(t, n), n, loop_info)
           [] t[n].kind = "UNARY_OPERATOR" ->
                _analyze_unary_operation(SourceText(t, n), n, loop_info)
           [] t[n].kind = "CALL_EXPR" -> _analyze_function_call(t, n, loop_info)
           [] t[n].kind \in {"DECL_REF_EXPR", "ARRAY_SUBSCRIPT_EXPR"} ->
                _analyze_memory_access(SourceText(t, n), n, loop_info)
           [] OTHER -> loop_info)

\* for child in cursor.get_children(): _analyze_loop_body_recursive(child, ..)
BodyChildren(t, kids, loop_info) ==
  IF kids = <<>> THEN loop_info
  ELSE BodyChildren(t, Tail(kids), _analyze_loop_body_recursive(t, Head(kids), loop_info))

\* the body is taken to be the last child
_analyze_loop_body(t, n, loop_info) ==
  LET children == Children(t, n)
  IN IF children = <<>> THEN loop_info
     ELSE _analyze_loop_body_recursive(t, children[Len(children)], loop_info)

\* index of the first declaration of d whose span contains line, or 0
FirstContaining(d, line) ==
  LET hits == { i \in 1..Len(d) : d[i].start_line <= line /\ line <= d[i].end_line }
  IN IF hits = {} THEN 0 ELSE CHOOSE i \in hits : \A j \in hits : i <= j

AttachTo(d, line, loop_info) ==
  LET i == FirstContaining(d, line)
  IN IF i = 0 THEN d ELSE [d EXCEPT ![i].loops = Append(@, loop_info)]

\* for child in cursor.get_children(): if child.kind == CursorKind.PARM_DECL
ParameterScanRaises(t, n) ==
  \E j \in 1..Len(Children(t, n)) : t[Children(t, n)[j]].kind = "UNKNOWN"

_analyze_class(t, n, fa) ==
  [fa EXCEPT !.classes =
     DictSet(@, [name |-> t[n].name, start_line |-> StartLine(t, n),
                 end_line |-> EndLine(t, n), methods |-> <<>>])]

_analyze_function(t, n, fa) ==
  [fa EXCEPT !.functions =
     DictSet(@, [name |-> t[n].name, start_line |-> StartLine(t, n),
                 end_line |-> EndLine(t, n), loops |-> <<>>])]

\* class_context['data'] is the dict stored in file_analysis['classes']
_analyze_method(t, n, ctx, fa) ==
  LET c == IndexOf(fa.classes, ctx.name)
  IN IF c = 0 THEN fa
     ELSE [fa EXCEPT !.classes[c].methods =
             DictSet(@, [name |-> t[n].name, start_line |-> StartLine(t, n),
                         end_line |-> EndLine(t, n), loops |-> <<>>])]

_analyze_loop(t, n, ctx, fa) ==
  LET loop_info == _analyze_loop_body(t, n, NewLoop(t, n, _calculate_nesting_level(t, n)))
      line == StartLine(t, n)
      c == IndexOf(fa.classes, ctx.name)
      attached ==
        CASE ctx.type = "function" ->
               [fa EXCEPT !.functions = AttachTo(@, line, loop_info)]
          [] ctx.type = "class" ->
               IF c = 0 THEN fa
               ELSE [fa EXCEPT !.classes[c].methods = AttachTo(@, line, loop_info)]
          [] OTHER ->
               [fa EXCEPT !.global_loops = Append(@, loop_info)]
  IN [attached EXCEPT !.total_loops = @ + 1]

\* the context _analyze_cursor hands to the children of node n
ChildContext(t, n, ctx) ==
  CASE t[n].kind = "CLASS_DECL" -> [type |-> "class", name |-> t[n].name]
    [] t[n].kind \in {"FUNCTION_DECL", "CXX_METHOD"} -> [type |-> "function", name |-> t[n].name]
    [] OTHER -> ctx

\* the dispatch of _analyze_cursor on the cursor kind
Dispatch(t, n, ctx, fa) ==
  CASE t[n].kind = "CLASS_DECL" -> _analyze_class(t, n, fa)
    [] t[n].kind = "FUNCTION_DECL" -> _analyze_function(t, n, fa)
    [] t[n].kind = "CXX_METHOD" ->
         IF ctx.type = "class" THEN _analyze_method(t, n, ctx, fa) ELSE fa
    [] t[n].kind \in LoopKinds -> _analyze_loop(t, n, ctx, fa)
    [] OTHER -> fa

\* an exception is raised while node n is inspected, before file_analysis is
\* touched; the except clause of _analyze_cursor ends the call
InspectionRaises(t, n, ctx) ==
  \/ t[n].kind = "UNKNOWN"
  \/ t[n].kind = "FUNCTION_DECL" /\ ParameterScanRaises(t, n)
  \/ t[n].kind = "CXX_METHOD" /\ ctx.type = "class" /\ ParameterScanRaises(t, n)

ChildFrames(t, n, ctx) ==
  LET kids == Children(t, n)
  IN [j \in 1..Len(kids) |-> [node |-> kids[j], ctx |-> ChildContext(t, n, ctx)]]

\* the except clause of _analyze_cursor formats cursor.kind into its log
\* message: for a cursor whose kind cannot be read the handler raises again,
\* and the exception ends the loop over the children in the caller
HandlerRaises(t, n) == t[n].kind = "UNKNOWN"

RECURSIVE DropSiblings(_, _, _)
\* the pending calls without those for the children of node p
DropSiblings(t, stk, p) ==
  IF stk # <<>> /\ t[Head(stk).node].parent = p
  THEN DropSiblings(t, Tail(stk), p)
  ELSE stk

\* one call of _analyze_cursor, up to the calls for the children
WalkStep(t, stk, fa) ==
  LET fr == Head(stk)
  IN IF InspectionRaises(t, fr.node, fr.ctx)
     THEN [stack |-> IF HandlerRaises(t, fr.node)
                     THEN DropSiblings(t, Tail(stk), t[fr.node].parent)
                     ELSE Tail(stk),
           fa |-> fa]
     ELSE [stack |-> ChildFrames(t, fr.node, fr.ctx) \o Tail(stk),
           fa |-> Dispatch(t, fr.node, fr.ctx, fa)]

RECURSIVE RunWalk(_, _, _)
RunWalk(t, stk, fa) ==
  IF stk = <<>> THEN fa
  ELSE RunWalk(t, WalkStep(t, stk, fa).stack, WalkStep(t, stk, fa).fa)

\* LoopAnalyzer.analyze_file: the AnalysisResult of one translation unit
analyze_file(t) == RunWalk(t, << [node |-> 1, ctx |-> NoContext] >>, EmptyAnalysis)

(***************************************************************************)
(* The orchestrator: src/loop_extractor.py and src/src/json_output.py      *)
(***************************************************************************)
Files == 1..MaxFiles

\* the translation units of the files of the scanned directory
TreeGlobalNested ==      \* template<class T> void t() { for (;;) for (;;) { } }
  << [kind |-> "TRANSLATION_UNIT", parent |-> 0, name |-> ""],
     [kind |-> "FUNCTION_TEMPLATE", parent |-> 1, name |-> "t"],
     [kind |-> "COMPOUND_STMT", parent |-> 2, name |-> ""],
     [kind |-> "FOR_STMT", parent |-> 3, name |-> ""],
     [kind |-> "FOR_STMT", parent |-> 4, name |-> ""],
     [kind |-> "COMPOUND_STMT", parent |-> 5, name |-> ""] >>

TreeUnknownCursor ==     \* void f() { while (c) { h(); h(); } <unknown cursor>; }
  << [kind |-> "TRANSLATION_UNIT", parent |-> 0, name |-> ""],
     [kind |-> "FUNCTION_DECL", parent |-> 1, name |-> "f"],
     [kind |-> "COMPOUND_STMT", parent |-> 2, name |-> ""],
     [kind |-> "WHILE_STMT", parent |-> 3, name |-> ""],
     [kind |-> "BINARY_OPERATOR", parent |-> 4, name |-> ""],
     [kind |-> "COMPOUND_STMT", parent |-> 4, name |-> ""],
     [kind |-> "CALL_EXPR", parent |-> 6, name |-> "h"],
     [kind |-> "CALL_EXPR", parent |-> 6, name |-> "h"],
     [kind |-> "UNKNOWN", parent |-> 3, name |-> ""] >>

TreeFunctionNested ==    \* void f() { q(); for (;;) { k(); do { p(); } while (h()); } }
  << [kind |-> "TRANSLATION_UNIT", parent |-> 0, name |-> ""],
     [kind |-> "FUNCTION_DECL", parent |-> 1, name |-> "f"],
     [kind |-> "COMPOUND_STMT", parent |-> 2, name |-> ""],
     [kind |-> "CALL_EXPR", parent |-> 3, name |-> "q"],
     [kind |-> "FOR_STMT", parent |-> 3, name |-> ""],
     [kind |-> "COMPOUND_STMT", parent |-> 5, name |-> ""],
     [kind |-> "CALL_EXPR", parent |-> 6, name |-> "k"],
     [kind |-> "DO_STMT", parent |-> 6, name |-> ""],
     [kind |-> "COMPOUND_STMT", parent |-> 8, name |-> ""],
     [kind |-> "CALL_EXPR", parent |-> 9, name |-> "p"],
     [kind |-> "CALL_EXPR", parent |-> 8, name |-> "h"] >>

TreeClassMethod ==       \* class A { void m() { for (auto x : v) { } } };
  << [kind |-> "TRANSLATION_UNIT", parent |-> 0, name |-> ""],
     [kind |-> "CLASS_DECL", parent |-> 1, name |-> "A"],
     [kind |-> "CXX_METHOD", parent |-> 2, name |-> "m"],
     [kind |-> "COMPOUND_STMT", parent |-> 3, name |-> ""],
     [kind |-> "CXX_FOR_RANGE_STMT", parent |-> 4, name |-> ""],
     [kind |-> "BINARY_OPERATOR", parent |-> 5, name |-> ""],
     [kind |-> "COMPOUND_STMT", parent |-> 5, name |-> ""] >>

\* what index.parse returns for file f when it returns a unit
FileTree(f) ==
  CASE f % 4 = 1 -> TreeGlobalNested
    [] f % 4 = 2 -> TreeUnknownCursor
    [] f % 4 = 3 -> TreeFunctionNested
    [] OTHER -> TreeClassMethod

\* an exception is raised, and caught, somewhere in the walk of tree t
RECURSIVE RaisedInWalk(_, _, _)
RaisedInWalk(t, stk, fa) ==
  IF stk = <<>> THEN FALSE
  ELSE \/ InspectionRaises(t, Head(stk).node, Head(stk).ctx)
       \/ RaisedInWalk(t, WalkStep(t, stk, fa).stack, WalkStep(t, stk, fa).fa)

WalkRaises(t) == RaisedInWalk(t, << [node |-> 1, ctx |-> NoContext] >>, EmptyAnalysis)

RECURSIVE _count_loops_recursive(_)
RECURSIVE SumNested(_)
\* LoopAnalyzer._count_loops_recursive
_count_loops_recursive(loops) == Len(loops) + SumNested(loops)

SumNested(loops) ==
  IF loops = <<>> THEN 0
  ELSE _count_loops_recursive(Head(loops).nested_loops) + SumNested(Tail(loops))

RECURSIVE CountDecls(_)
CountDecls(d) ==
  IF d = <<>> THEN 0 ELSE _count_loops_recursive(Head(d).loops) + CountDecls(Tail(d))

RECURSIVE CountClasses(_)
CountClasses(cs) ==
  IF cs = <<>> THEN 0 ELSE CountDecls(Head(cs).methods) + CountClasses(Tail(cs))

\* LoopAnalyzer.count_loops
count_loops(fa) ==
  Len(fa.global_loops) + CountDecls(fa.functions) + CountClasses(fa.classes)

\* the result map is a dict: a sequence of entries [name, value], name the path
Keys(d) == { d[j].name : j \in 1..Len(d) }
Lookup(d, k) == d[IndexOf(d, k)].value

RECURSIVE SumCounts(_)
\* sum(loop_analyzer.count_loops(file_data) for file_data in ...values())
SumCounts(d) ==
  IF d = <<>> THEN 0 ELSE count_loops(Head(d).value) + SumCounts(Tail(d))

RECURSIVE VisitLoops(_)
RECURSIVE VisitNested(_)
\* JSONOutput._count_loops_recursive: the loop records it visits, in order
VisitLoops(loops) ==
  IF loops = <<>> THEN <<>>
  ELSE <<Head(loops)>> \o VisitLoops(Head(loops).nested_loops) \o VisitLoops(Tail(loops))

VisitNested(d) == IF d = <<>> THEN <<>> ELSE VisitLoops(Head(d).loops) \o VisitNested(Tail(d))

RECURSIVE VisitMethods(_)
VisitMethods(cs) ==
  IF cs = <<>> THEN <<>> ELSE VisitNested(Head(cs).methods) \o VisitMethods(Tail(cs))

\* JSONOutput._count_loops_in_container
_count_loops_in_container(container) == VisitNested(container)

RECURSIVE SummaryVisits(_)
\* the loop records the loop of _generate_analysis_summary counts, file by
\* file: functions, then methods, then the global loops themselves
SummaryVisits(results) ==
  IF results = <<>> THEN <<>>
  ELSE LET file_data == Head(results).value
       IN _count_loops_in_container(file_data.functions)
            \o VisitMethods(file_data.classes)
            \o file_data.global_loops
            \o SummaryVisits(Tail(results))

\* the keys of the loop_types dict of the summary
SummaryKeys == {"for_loops", "while_loops", "do_while_loops", "range_for_loops"}

Max2(a, b) == IF a >= b THEN a ELSE b

RECURSIVE SeqMax(_)
SeqMax(q) == IF q = <<>> THEN 0 ELSE Max2(Head(q), SeqMax(Tail(q)))

RECURSIVE SeqSum(_)
SeqSum(q) == IF q = <<>> THEN 0 ELSE Head(q) + SeqSum(Tail(q))

\* x / n rounded to an integer, ties to even
RoundHalfEven(x, n) ==
  LET fl == x \div n
      r == x % n
  IN IF 2 * r < n THEN fl
     ELSE IF 2 * r > n THEN fl + 1
     ELSE IF fl % 2 = 0 THEN fl ELSE fl + 1

\* round(sum / len, 2) in hundredths, ties to even
RoundedAverage(q) == IF q = <<>> THEN 0 ELSE RoundHalfEven(100 * SeqSum(q), Len(q))

RECURSIVE CountWithLoops(_)
CountWithLoops(d) ==
  IF d = <<>> THEN 0
  ELSE (IF Head(d).loops # <<>> THEN 1 ELSE 0) + CountWithLoops(Tail(d))

RECURSIVE MethodsWithLoops(_)
MethodsWithLoops(cs) ==
  IF cs = <<>> THEN 0 ELSE CountWithLoops(Head(cs).methods) + MethodsWithLoops(Tail(cs))

RECURSIVE functions_with_loops(_)
functions_with_loops(results) ==
  IF results = <<>> THEN 0
  ELSE LET file_data == Head(results).value
       IN CountWithLoops(file_data.functions) + MethodsWithLoops(file_data.classes)
            + functions_with_loops(Tail(results))

\* the nesting_levels list of _generate_analysis_summary
VisitLevels(visits) == [j \in 1..Len(visits) |-> visits[j].nesting_level]

nesting_levels(results) == VisitLevels(SummaryVisits(results))

\* the summary dict from the loop records counted, their nesting levels and
\* the number of functions and methods with loops
SummaryOf(visits, levels, with_loops) ==
  [loop_types |-> [k \in SummaryKeys |->
                     Len(SelectSeq(visits, LAMBDA l : l.type = k))],
   max_depth |-> SeqMax(levels),
   average_depth |-> RoundedAverage(levels),
   functions_with_loops |-> with_loops]

\* JSONOutput._generate_analysis_summary; a loop is counted under the key
\* equal to its type string
_generate_analysis_summary(results) ==
  SummaryOf(SummaryVisits(results), nesting_levels(results), functions_with_loops(results))

\* the test, had it appended every call site
AddOnce_Always(q, x) == Append(q, x)

\* if function_name and function_name not in the list: append
AddOnce(q, x) == IF \E j \in 1..Len(q) : q[j] = x THEN q ELSE Append(q, x)

RECURSIVE AddCalls(_, _)
AddCalls(call_info, fcs) ==
  IF fcs = <<>> THEN call_info
  ELSE AddCalls([call_info EXCEPT !.calls_in_loops = AddOnce(@, Head(fcs)),
                                  !.calls = AddOnce(@, Head(fcs))], Tail(fcs))

RECURSIVE _extract_calls_from_loops(_, _)
\* JSONOutput._extract_calls_from_loops
_extract_calls_from_loops(loops, call_info) ==
  IF loops = <<>> THEN call_info
  ELSE _extract_calls_from_loops(Tail(loops),
         _extract_calls_from_loops(Head(loops).nested_loops,
                                   AddCalls(call_info, Head(loops).function_calls)))

\* call_graph[name], created empty when the name is not a key yet
NodeOf(call_graph, nm) ==
  IF IndexOf(call_graph, nm) = 0
  THEN [name |-> nm, calls |-> <<>>, called_by |-> <<>>, calls_in_loops |-> <<>>]
  ELSE call_graph[IndexOf(call_graph, nm)]

RECURSIVE GraphDecls(_, _, _)
\* the declarations of one dict, keyed with the given prefix
GraphDecls(call_graph, prefix, d) ==
  IF d = <<>> THEN call_graph
  ELSE GraphDecls(DictSet(call_graph,
                          _extract_calls_from_loops(Head(d).loops,
                                                    NodeOf(call_graph, prefix \o Head(d).name))),
                  prefix, Tail(d))

RECURSIVE GraphClasses(_, _)
GraphClasses(call_graph, cs) ==
  IF cs = <<>> THEN call_graph
  ELSE GraphClasses(GraphDecls(call_graph, Head(cs).name \o "::", Head(cs).methods), Tail(cs))

RECURSIVE GraphFiles(_, _)
GraphFiles(call_graph, results) ==
  IF results = <<>> THEN call_graph
  ELSE GraphFiles(GraphClasses(GraphDecls(call_graph, "", Head(results).value.functions),
                               Head(results).value.classes),
                  Tail(results))

\* JSONOutput._generate_call_graph
_generate_call_graph(results) == GraphFiles(<<>>, results)

NoMetadata ==
  [keys |-> {}, total_files_scanned |-> 0, total_loops_found |-> 0,
   files_processed |-> 0, files_remaining |-> 0]

\* generate_output, had it removed an entry from the dict it is handed
generate_output_Popping(results, n_source_files, loops) ==
  [metadata |-> [NoMetadata EXCEPT !.total_files_scanned = n_source_files,
                                   !.total_loops_found = loops],
   analysis_summary |-> _generate_analysis_summary(results),
   source_files |-> IF results = <<>> THEN <<>> ELSE Tail(results),
   call_graph |-> _generate_call_graph(results)]

\* JSONOutput.generate_output; keys lists the optional run-state fields set.
\* source_files is the caller's analysis_results dict itself, not a copy: what
\* the call leaves in it is what the caller's dict holds afterwards
generate_output(results, n_source_files, loops) ==
  [metadata |-> [NoMetadata EXCEPT !.total_files_scanned = n_source_files,
                                   !.total_loops_found = loops],
   analysis_summary |-> _generate_analysis_summary(results),
   source_files |-> results,
   call_graph |-> _generate_call_graph(results)]

NoData == generate_output(<<>>, 0, 0)
Absent == [state |-> "absent", data |-> NoData]

\* a file whose text is not a JSON document
NotJson == [state |-> "partial", data |-> NoData]

WriteOutcomes == {"ok", "open_fails", "dump_fails"}

\* JSONOutput.write_output: the artifact at the path after the call.  open()
\* truncates the file, json.dump then streams the text into it
write_output(old, data, w) ==
  CASE w = "ok" -> [state |-> "complete", data |-> data]
    [] w = "open_fails" -> old
    [] OTHER -> NotJson

\* the data save_checkpoint hands to write_output
checkpoint_data(results, loops, processed, total) ==
  LET d == generate_output(results, Len(results), loops)
  IN [d EXCEPT !.metadata.keys = {"checkpoint", "files_processed", "files_remaining"},
               !.metadata.files_processed = processed,
               !.metadata.files_remaining = total - processed]

\* main.save_checkpoint; a failed write is logged and swallowed
save_checkpoint(old, checkpoint, w) == write_output(old, checkpoint, w)

\* the interrupt path, had it reported the number of results as files_processed
interrupted_data_CountingResults(results, loops, processed, total) ==
  LET d == generate_output(results, Len(results), loops)
  IN [d EXCEPT !.metadata.keys = {"interrupted", "files_processed", "files_remaining"},
               !.metadata.files_processed = Len(results),
               !.metadata.files_remaining = total - Len(results)]

\* the output of the interrupt path
interrupted_data(results, loops, processed, total) ==
  LET d == generate_output(results, Len(results), loops)
  IN [d EXCEPT !.metadata.keys = {"interrupted", "files_processed", "files_remaining"},
               !.metadata.files_processed = processed,
               !.metadata.files_remaining = total - processed]

\* the resume filter, had it kept every discovered file
remaining_files_Unfiltered(files, processed_files) == files

\* [f for f in source_files if str(f) not in processed_files]
remaining_files(files, processed_files) ==
  SelectSeq(files, LAMBDA f : f \notin processed_files)

\* the state initialisation, had it started from an empty map on resume
initial_results_Empty(rd) == <<>>

\* analysis_results = resume_data.get('source_files', {}) if resume_data else {}
initial_results(rd) == IF rd.loaded THEN rd.source_files ELSE <<>>

\* the cadence test, had it left out the last file
checkpoint_due_EveryNthOnly(idx, n) == idx % freq = 0

\* i % args.checkpoint_frequency == 0 or i == len(source_files)
checkpoint_due(idx, n) == idx % freq = 0 \/ idx = n

\* last: the step just taken.  op names it; file, parse, raised describe the
\* file of a per-file step; total_before is total_loops before the step;
\* attempted tells whether the finally clause called save_checkpoint; at is
\* the number of files of this invocation handled before an interrupt;
\* where is the place a KeyboardInterrupt arrived; ckpt_w and out_w are the
\* outcomes of the step's last checkpoint write and of its output write;
\* unlink is the outcome of checkpoint_file.unlink(); ckpt_state is the state
\* of the file named by --resume-from-checkpoint when main() looked at it
NoStep ==
  [op |-> "none", file |-> 0, parse |-> "none", raised |-> FALSE,
   total_before |-> 0, attempted |-> FALSE, at |-> 0, where |-> "none",
   ckpt_w |-> "none", out_w |-> "none", unlink |-> "none", ckpt_state |-> "none"]

\* from: "own" when --resume-from-checkpoint names this invocation's
\* checkpoint_file, "other" when it names the checkpoint of another --output
NotLoaded == [loaded |-> FALSE, metadata |-> NoMetadata, source_files |-> <<>>,
              from |-> "none"]

\* main, had it gone on with an empty map when the checkpoint cannot be loaded
load_checkpoint_Lenient(ck, from) ==
  [loaded |-> TRUE, metadata |-> ck.data.metadata,
   source_files |-> ck.data.source_files, from |-> from]

\* checkpoint_path.exists() and json.load: resume_data, NotLoaded when main
\* returns 1 instead
load_checkpoint(ck, from) ==
  IF ck.state = "complete"
  THEN [loaded |-> TRUE, metadata |-> ck.data.metadata,
        source_files |-> ck.data.source_files, from |-> from]
  ELSE NotLoaded

\* save_checkpoint, had it let the error of a failed write through
save_checkpoint_ends_Raising(w) == IF w = "ok" THEN "returns" ELSE "raises"

\* how a save_checkpoint call ends: except Exception logs and swallows
save_checkpoint_ends(w) == "returns"

\* main, had it reported success whatever write_output did
main_status_AlwaysZero(w) == 0

\* the status main returns after the write of an output: write_output
\* re-raises, the outer except clause returns 1
main_status(w) == IF w = "ok" THEN 0 ELSE 1

\* the result map as a function of its keys, whatever the insertion order
AsMap(d) == [k \in Keys(d) |-> Lookup(d, k)]

\* the record of one save_checkpoint call: what the artifact holds after it,
\* and tag = <<invocation, files handled>> at the time of the call
SaveEntry(w, after, tag) ==
  [ok |-> w = "ok", content |-> after.data, tag |-> tag]

Logged(log, e) == IF Len(log) < 2 THEN Append(log, e) ELSE <<log[2], e>>

\* the latest save_checkpoint of the invocation failed
StorageDown == save_log # <<>> /\ ~save_log[Len(save_log)].ok

\* the number of failed writes among the outcomes ws
Failed(ws) == Cardinality({ j \in 1..Len(ws) : ws[j] # "ok" })

\* the faults of Phase 3: a final write that fails right after the failed
\* save_checkpoint of the last file has the same cause (disk full, directory
\* gone) and is the same fault
FinalFailed(ws) == IF StorageDown /\ ws[1] # "ok" THEN 0 ELSE Failed(ws)

\* the failed writes of ws and the cancellation stay within the fault budget
WithinBudget(ws, cancelled) == faults + Failed(ws) + cancelled <= MaxFaults

OrchestratorIdle ==
  /\ discovered = <<>>
  /\ parse_ok = [f \in Files |-> TRUE]
  /\ freq = 1
  /\ ckpt_file = Absent
  /\ out_file = Absent
  /\ other_ckpt = Absent
  /\ other_out = Absent
  /\ pc = "idle"
  /\ exit_code = 0
  /\ resume_data = NotLoaded
  /\ source_files = <<>>
  /\ start_index = 0
  /\ loop_i = 0
  /\ analysis_results = <<>>
  /\ total_loops = 0
  /\ processed_count = 0
  /\ total_files = 0
  /\ run = 0
  /\ last = NoStep
  /\ parsed = {}
  /\ save_log = <<>>
  /\ faults = 0

(***************************************************************************)
(* SpecText: the body-walk of a loop meets one node of a kind it records,  *)
(* with any source text of up to MaxLen characters, and calls the          *)
(* extractor for that kind on a fresh Loop record.                         *)
(***************************************************************************)
Chars == {"a", " ", "[", "]", "*", ".", "-", ">", "<", "&"}

Texts == UNION { [1..k -> Chars] : k \in 0..MaxLen }

\* the Loop record of _analyze_loop before the body is walked
FreshLoop ==
  [loop_id |-> 1, type |-> "for_loop", loop_bounds |-> NoBounds, nesting_level |-> 1,
   nested_loops |-> <<>>, operations |-> FreshOperations,
   memory_access |-> [reads |-> <<>>, writes |-> <<>>], function_calls |-> <<>>]

NoBodyWalk == [cursor_kind |-> "none", source_text |-> <<>>, loop_info |-> FreshLoop,
               pc |-> "off"]

InitText ==
  /\ tree = RootOnly
  /\ stack = <<>>
  /\ file_analysis = EmptyAnalysis
  /\ wpc = "off"
  /\ OrchestratorIdle
  /\ \E k \in {"BINARY_OPERATOR", "UNARY_OPERATOR", "DECL_REF_EXPR", "ARRAY_SUBSCRIPT_EXPR"} :
       \E text \in Texts :
         body_walk = [cursor_kind |-> k, source_text |-> text, loop_info |-> FreshLoop,
                      pc |-> "node"]

\* the line of the node met
NodeLine == 2

\* elif cursor_kind == CursorKind.BINARY_OPERATOR
binary_operation ==
  /\ body_walk.pc = "node"
  /\ body_walk.cursor_kind = "BINARY_OPERATOR"
  /\ body_walk' = [body_walk EXCEPT
        !.loop_info = _analyze_binary_operation(body_walk.source_text, NodeLine, @),
        !.pc = "walked"]
  /\ UNCHANGED <<wvars, ovars>>

\* elif cursor_kind == CursorKind.UNARY_OPERATOR
unary_operation ==
  /\ body_walk.pc = "node"
  /\ body_walk.cursor_kind = "UNARY_OPERATOR"
  /\ body_walk' = [body_walk EXCEPT
        !.loop_info = _analyze_unary_operation(body_walk.source_text, NodeLine, @),
        !.pc = "walked"]
  /\ UNCHANGED <<wvars, ovars>>

\* elif cursor_kind in {CursorKind.DECL_REF_EXPR, CursorKind.ARRAY_SUBSCRIPT_EXPR}
memory_access ==
  /\ body_walk.pc = "node"
  /\ body_walk.cursor_kind \in {"DECL_REF_EXPR", "ARRAY_SUBSCRIPT_EXPR"}
  /\ body_walk' = [body_walk EXCEPT
        !.loop_info = _analyze_memory_access(body_walk.source_text, NodeLine, @),
        !.pc = "walked"]
  /\ UNCHANGED <<wvars, ovars>>

NextText ==
  \/ binary_operation
  \/ unary_operation
  \/ memory_access

SpecText == InitText /\ [][NextText]_vars

(***************************************************************************)
(* SpecWalk: the front-end delivers a tree, analyze_file walks it.         *)
(***************************************************************************)
InitWalk ==
  /\ tree = RootOnly
  /\ stack = <<>>
  /\ file_analysis = EmptyAnalysis
  /\ wpc = "parse"
  /\ OrchestratorIdle
  /\ body_walk = NoBodyWalk

\* the front-end builds the translation unit, node by node
ParseNode ==
  /\ wpc = "parse"
  /\ Len(tree) < MaxNodes
  /\ \E nd \in NextNodes(tree) : tree' = Append(tree, nd)
  /\ UNCHANGED <<stack, file_analysis, wpc>>
  /\ UNCHANGED <<ovars, body_walk>>

\* analyze_file: the walk starts at the root cursor
analyze_file_begin ==
  /\ wpc = "parse"
  /\ WellFormed(tree)
  /\ wpc' = "walk"
  /\ stack' = << [node |-> 1, ctx |-> NoContext] >>
  /\ file_analysis' = EmptyAnalysis
  /\ UNCHANGED tree
  /\ UNCHANGED <<ovars, body_walk>>

\* one call of _analyze_cursor, up to the calls for its children
_analyze_cursor ==
  /\ wpc = "walk"
  /\ stack # <<>>
  /\ file_analysis' = WalkStep(tree, stack, file_analysis).fa
  /\ stack' = WalkStep(tree, stack, file_analysis).stack
  /\ UNCHANGED <<tree, wpc>>
  /\ UNCHANGED <<ovars, body_walk>>

analyze_file_return ==
  /\ wpc = "walk"
  /\ stack = <<>>
  /\ wpc' = "done"
  /\ UNCHANGED <<tree, stack, file_analysis>>
  /\ UNCHANGED <<ovars, body_walk>>

NextWalk ==
  \/ ParseNode
  \/ analyze_file_begin
  \/ _analyze_cursor
  \/ analyze_file_return

SpecWalk == InitWalk /\ [][NextWalk]_vars

(***************************************************************************)
(* Spec: invocations of main() over one directory                          *)
(***************************************************************************)
Init ==
  /\ tree = RootOnly
  /\ stack = <<>>
  /\ file_analysis = EmptyAnalysis
  /\ wpc = "off"
  /\ body_walk = NoBodyWalk
  /\ \E n \in 0..MaxFiles : discovered = [j \in 1..n |-> j]
  /\ parse_ok \in [Files -> BOOLEAN]
  /\ \A f \in Files : f > Len(discovered) => parse_ok[f]
  /\ freq \in {1, MaxFreq}
  /\ ckpt_file = Absent
  /\ out_file = Absent
  /\ other_ckpt = Absent
  /\ other_out = Absent
  /\ pc = "idle"
  /\ exit_code = 0
  /\ resume_data = NotLoaded
  /\ source_files = <<>>
  /\ start_index = 0
  /\ loop_i = 0
  /\ analysis_results = <<>>
  /\ total_loops = 0
  /\ processed_count = 0
  /\ total_files = 0
  /\ run = 0
  /\ last = NoStep
  /\ parsed = {}
  /\ save_log = <<>>
  /\ faults = 0

\* main() up to the file loop, entered with resume_data and the file list
EnterLoop(rd, code_if_empty) ==
  IF discovered = <<>>
  THEN \* "No source files found to analyze"
       /\ pc' = "exit"
       /\ exit_code' = code_if_empty
       /\ resume_data' = rd
       /\ source_files' = <<>>
       /\ start_index' = 0
       /\ analysis_results' = <<>>
       /\ total_loops' = 0
       /\ processed_count' = 0
       /\ total_files' = 0
  ELSE LET remaining == IF rd.loaded
                        THEN remaining_files(discovered, Keys(rd.source_files))
                        ELSE discovered
           first == IF rd.loaded THEN Len(discovered) - Len(remaining) ELSE 0
       IN /\ pc' = "loop"
          /\ exit_code' = 0
          /\ resume_data' = rd
          /\ source_files' = remaining
          /\ start_index' = first
          /\ analysis_results' = initial_results(rd)
          /\ total_loops' = IF rd.loaded THEN SumCounts(initial_results(rd)) ELSE 0
          /\ processed_count' = first
          /\ total_files' = Len(remaining) + first

\* args.output of the invocation: the same as in the invocation before, or
\* the other one; checkpoint_file is derived from it
SelectOutput(same) ==
  IF same
  THEN UNCHANGED <<ckpt_file, out_file, other_ckpt, other_out>>
  ELSE /\ ckpt_file' = other_ckpt
       /\ other_ckpt' = ckpt_file
       /\ out_file' = other_out
       /\ other_out' = out_file

\* main() without --resume-from-checkpoint, with the args.output of the
\* invocation before
main_start ==
  /\ pc \in {"idle", "exit"}
  /\ run < MaxRuns
  /\ run' = run + 1
  /\ SelectOutput(TRUE)
  /\ EnterLoop(NotLoaded, 0)
  /\ loop_i' = 0
  /\ parsed' = {}
  /\ last' = [NoStep EXCEPT !.op = "start"]
  /\ save_log' = <<>>
  /\ UNCHANGED <<discovered, parse_ok, freq, faults>>
  /\ UNCHANGED <<wvars, body_walk>>

\* main() with --resume-from-checkpoint: the path names the checkpoint_file
\* of this invocation's args.output ("own"), that of the other output
\* ("other"), or a file that no checkpoint write produced ("not_json")
main_resume ==
  /\ pc \in {"idle", "exit"}
  /\ run < MaxRuns
  /\ run' = run + 1
  /\ \E same \in BOOLEAN, from \in {"own", "other", "not_json"} :
       LET named == CASE from = "not_json" -> NotJson
                      [] (from = "own") = same -> ckpt_file
                      [] OTHER -> other_ckpt
           rd == load_checkpoint(named, from)
       IN /\ SelectOutput(same)
          /\ IF rd.loaded
             THEN EnterLoop(rd, 0)
             ELSE \* the file does not exist, or json.load raises
                  /\ pc' = "exit"
                  /\ exit_code' = 1
                  /\ resume_data' = NotLoaded
                  /\ source_files' = <<>>
                  /\ start_index' = 0
                  /\ analysis_results' = <<>>
                  /\ total_loops' = 0
                  /\ processed_count' = 0
                  /\ total_files' = 0
          /\ last' = [NoStep EXCEPT !.op = "resume", !.ckpt_state = named.state]
  /\ loop_i' = 0
  /\ parsed' = {}
  /\ save_log' = <<>>
  /\ UNCHANGED <<discovered, parse_ok, freq, faults>>
  /\ UNCHANGED <<wvars, body_walk>>

\* loop_analyzer.analyze_file(translation_unit, source_file) for the files of
\* the directory, by the tree the front-end returns
FileAnalyses == [r \in 0..3 |-> analyze_file(FileTree(r))]
FileRaises == [r \in 0..3 |-> WalkRaises(FileTree(r))]

\* the try body, had it stored an empty result for a file that does not parse
FileBody_StoringUnparsed(f, upto) ==
  LET fa == IF parse_ok[f] THEN FileAnalyses[f % 4] ELSE EmptyAnalysis
      inserted == upto \in {"after_insert", "end"}
      counted == upto = "end"
  IN [results |-> IF inserted
                  THEN DictSet(analysis_results, [name |-> f, value |-> fa])
                  ELSE analysis_results,
      total |-> IF counted THEN total_loops + count_loops(fa) ELSE total_loops]

\* the body of the try statement of the file loop for file f, cut short at
\* the place named by upto ("end" when it runs to its end)
FileBody(f, upto) ==
  LET fa == FileAnalyses[f % 4]
      inserted == parse_ok[f] /\ upto \in {"after_insert", "end"}
      counted == parse_ok[f] /\ upto = "end"
  IN [results |-> IF inserted
                  THEN DictSet(analysis_results, [name |-> f, value |-> fa])
                  ELSE analysis_results,
      total |-> IF counted THEN total_loops + count_loops(fa) ELSE total_loops]

\* the finally clause of the iteration of file f, the n-th of this
\* invocation, after the try body left body; checkpoint is the data
\* save_checkpoint generates when the cadence test holds
finally_clause(n, f, body, due, checkpoint) ==
  \E w \in WriteOutcomes :
    LET raises == due /\ save_checkpoint_ends(w) = "raises"
    IN /\ (~due) => w = "ok"
       /\ WithinBudget(<<w>>, 0)
       /\ faults' = faults + Failed(<<w>>)
       /\ analysis_results' = IF due THEN checkpoint.source_files ELSE body.results
       /\ total_loops' = body.total
       /\ loop_i' = n
       /\ processed_count' = start_index + n
       /\ ckpt_file' = IF due THEN save_checkpoint(ckpt_file, checkpoint, w)
                       ELSE ckpt_file
       /\ save_log' = IF due
                      THEN Logged(save_log, SaveEntry(w, ckpt_file', <<run, n>>))
                      ELSE save_log
       /\ parsed' = parsed \cup {f}
       /\ pc' = IF raises THEN "exit" ELSE "loop"
       /\ exit_code' = IF raises THEN 1 ELSE exit_code
       /\ last' = [NoStep EXCEPT !.op = "process_file", !.file = f,
                     !.parse = IF parse_ok[f] THEN "ok" ELSE "fail",
                     !.raised = parse_ok[f] /\ FileRaises[f % 4],
                     !.total_before = total_loops, !.attempted = due,
                     !.ckpt_w = IF due THEN w ELSE "none"]

\* one iteration of the file loop: try body, then the finally clause
process_file ==
  /\ pc = "loop"
  /\ loop_i < Len(source_files)
  /\ LET n == loop_i + 1
         f == source_files[n]
         body == FileBody(f, "end")
     IN finally_clause(n, f, body, checkpoint_due(n, Len(source_files)),
                       checkpoint_data(body.results, body.total, start_index + n,
                                       total_files))
  /\ UNCHANGED <<discovered, parse_ok, freq, out_file, other_ckpt, other_out,
                 resume_data, source_files, start_index, total_files, run>>
  /\ UNCHANGED <<wvars, body_walk>>

\* except KeyboardInterrupt: of the file loop, reached with loop variable i:
\* save_checkpoint with the data checkpoint over the artifact ck, then the
\* output interrupted
InterruptPath(checkpoint, interrupted, i, ck, log, w1, w2) ==
  LET raises == save_checkpoint_ends(w1) = "raises"
  IN /\ ckpt_file' = save_checkpoint(ck, checkpoint, w1)
     /\ save_log' = Logged(log, SaveEntry(w1, ckpt_file', <<run, i>>))
     /\ out_file' = IF raises THEN out_file
                    ELSE write_output(out_file, interrupted, w2)
     /\ analysis_results' = interrupted.source_files
     /\ pc' = "exit"
     /\ exit_code' = IF raises THEN 1 ELSE main_status(w2)

\* the writes of a KeyboardInterrupt between two iterations
boundary_writes(checkpoint, interrupted) ==
  \E w1, w2 \in WriteOutcomes :
    /\ WithinBudget(<<w1, w2>>, 1)
    /\ faults' = faults + Failed(<<w1, w2>>) + 1
    /\ InterruptPath(checkpoint, interrupted, loop_i, ckpt_file, save_log, w1, w2)
    /\ last' = [NoStep EXCEPT !.op = "interrupt", !.at = loop_i,
                  !.where = "boundary", !.total_before = total_loops,
                  !.ckpt_w = w1, !.out_w = w2]

\* KeyboardInterrupt between two iterations of the file loop
interrupt_boundary ==
  /\ pc = "loop"
  /\ boundary_writes(checkpoint_data(analysis_results, total_loops,
                                     processed_count, total_files),
                     interrupted_data(analysis_results, total_loops,
                                      processed_count, total_files))
  /\ UNCHANGED <<total_loops, processed_count, loop_i, parsed>>
  /\ UNCHANGED <<discovered, parse_ok, freq, other_ckpt, other_out, resume_data,
                 source_files, start_index, total_files, run>>
  /\ UNCHANGED <<wvars, body_walk>>

\* the writes of a KeyboardInterrupt inside the iteration for file f, which
\* left body: the finally clause, then the interrupt path.  An interrupt in
\* the finally clause itself, ahead of its first assignment, ends the
\* clause: processed is the count the interrupt path works with
midfile_writes(n, f, upto, body, due, processed, checkpoint, interrupted) ==
  \E w0, w1, w2 \in WriteOutcomes :
    LET ck0 == IF due THEN save_checkpoint(ckpt_file, checkpoint, w0)
               ELSE ckpt_file
        log0 == IF due
                THEN Logged(save_log, SaveEntry(w0, ck0, <<run, n>>))
                ELSE save_log
    IN /\ (~due) => w0 = "ok"
       /\ WithinBudget(<<w0, w1, w2>>, 1)
       /\ faults' = faults + Failed(<<w0, w1, w2>>) + 1
       /\ total_loops' = body.total
       /\ loop_i' = n
       /\ processed_count' = processed
       /\ parsed' = parsed \cup {f}
       /\ InterruptPath(checkpoint, interrupted, n, ck0, log0, w1, w2)
       /\ last' = [NoStep EXCEPT !.op = "interrupt", !.file = f, !.at = loop_i,
                     !.where = upto, !.total_before = total_loops,
                     !.attempted = due, !.ckpt_w = w1, !.out_w = w2]

\* KeyboardInterrupt inside an iteration.  Raised in the try body, the
\* finally clause runs and then the interrupt path; raised when the try body
\* has ended and the finally clause has not yet assigned processed_count,
\* the interrupt path runs with the count of the iteration before
interrupt_midfile ==
  /\ pc = "loop"
  /\ loop_i < Len(source_files)
  /\ LET n == loop_i + 1
         f == source_files[n]
     IN \E upto \in {"before_insert", "after_insert", "in_finally"} :
          LET body == FileBody(f, IF upto = "in_finally" THEN "end" ELSE upto)
              processed == IF upto = "in_finally" THEN processed_count
                           ELSE start_index + n
              due == upto # "in_finally" /\ checkpoint_due(n, Len(source_files))
          IN /\ (~parse_ok[f]) => upto # "after_insert"
             /\ midfile_writes(n, f, upto, body, due, processed,
                  checkpoint_data(body.results, body.total, processed, total_files),
                  interrupted_data(body.results, body.total, processed, total_files))
  /\ UNCHANGED <<discovered, parse_ok, freq, other_ckpt, other_out, resume_data,
                 source_files, start_index, total_files, run>>
  /\ UNCHANGED <<wvars, body_walk>>

\* write_output of output_data to args.output, then the clean-up of
\* checkpoint_file when it exists
final_writes(output_data) ==
  \E w \in WriteOutcomes, u \in {"ok", "fails"} :
    LET reached == w = "ok" /\ ckpt_file.state # "absent"
    IN /\ (~reached) => u = "ok"
       /\ faults + FinalFailed(<<w, u>>) <= MaxFaults
       /\ faults' = faults + FinalFailed(<<w, u>>)
       /\ out_file' = write_output(out_file, output_data, w)
       /\ analysis_results' = output_data.source_files
       /\ ckpt_file' = IF reached /\ u = "ok" THEN Absent ELSE ckpt_file
       /\ exit_code' = main_status(w)
       /\ last' = [NoStep EXCEPT !.op = "finish", !.out_w = w,
                     !.total_before = total_loops,
                     !.unlink = IF reached THEN u ELSE "none"]

\* Phase 3 after a pass over all files: the final output, then the clean-up
finish ==
  /\ pc = "loop"
  /\ loop_i = Len(source_files)
  /\ final_writes(generate_output(analysis_results, Len(analysis_results),
                                  total_loops))
  /\ pc' = "exit"
  /\ UNCHANGED <<total_loops, processed_count, loop_i, parsed, save_log>>
  /\ UNCHANGED <<discovered, parse_ok, freq, other_ckpt, other_out, resume_data,
                 source_files, start_index, total_files, run>>
  /\ UNCHANGED <<wvars, body_walk>>

Next ==
  \/ main_start
  \/ main_resume
  \/ process_file
  \/ interrupt_boundary
  \/ interrupt_midfile
  \/ finish

Spec == Init /\ [][Next]_vars

(***************************************************************************)
(* Reading an AnalysisResult                                               *)
(***************************************************************************)
RECURSIVE FlattenLoops(_)
RECURSIVE FlattenLoop(_)
\* a loop list with all nested records, depth first
FlattenLoops(loops) ==
  IF loops = <<>> THEN <<>>
  ELSE FlattenLoop(Head(loops)) \o FlattenLoops(Tail(loops))

FlattenLoop(l) == <<l>> \o FlattenLoops(l.nested_loops)

RECURSIVE DeclLoops(_)
DeclLoops(d) == IF d = <<>> THEN <<>> ELSE FlattenLoops(Head(d).loops) \o DeclLoops(Tail(d))

RECURSIVE ClassLoops(_)
ClassLoops(cs) == IF cs = <<>> THEN <<>> ELSE DeclLoops(Head(cs).methods) \o ClassLoops(Tail(cs))

\* every Loop record of an AnalysisResult, whatever its owner
AllLoopRecords(fa) ==
  DeclLoops(fa.functions) \o ClassLoops(fa.classes) \o FlattenLoops(fa.global_loops)

LoopNodes(t) == { n \in 1..Len(t) : t[n].kind \in LoopKinds }

\* 1 + the number of loops that lexically enclose node n
LexicalLevel(t, n) == 1 + Cardinality({ a \in Ancestors(t, n) : t[a].kind \in LoopKinds })

RecordsOf(fa, n) == SelectSeq(AllLoopRecords(fa), LAMBDA l : l.loop_id = n)

(***************************************************************************)
(* C1: in the AnalysisResult analyze_file returns, every Loop record, in   *)
(* whatever list it sits, has nesting_level = 1 + the number of loops that *)
(* lexically enclose its node (1 when none does).                          *)
(* Violated: the top-level walk also visits the loops inside a loop and    *)
(* records each with the level _calculate_nesting_level finds on the       *)
(* semantic-parent chain, which holds declarations only.                   *)
(***************************************************************************)
C1_NestingLevelIsLexicalDepth ==
  wpc = "done" =>
    \A i \in 1..Len(AllLoopRecords(file_analysis)) :
      LET l == AllLoopRecords(file_analysis)[i]
      IN l.nesting_level = LexicalLevel(tree, l.loop_id)

(***************************************************************************)
(* C2: when the walk of a file ends, every loop node of the file is        *)
(* recorded by exactly one Loop record, under exactly one owner.           *)
(* Violated: a loop inside a loop is recorded in its parent's nested_loops *)
(* by the body-walk and again in the enclosing function's loop list by the *)
(* top-level walk.                                                         *)
(***************************************************************************)
C2_EachLoopRecordedOnce ==
  wpc = "done" =>
    \A n \in LoopNodes(tree) : Len(RecordsOf(file_analysis, n)) = 1


(***************************************************************************)
(* Reading a run of main()                                                 *)
(***************************************************************************)
\* the discovered files the front-end parses
ParsedFiles == { discovered[j] : j \in { k \in 1..Len(discovered) : parse_ok[discovered[k]] } }

\* the result map of a pass over all discovered files started from nothing
ScratchMap == [f \in ParsedFiles |-> FileAnalyses[f % 4]]

\* the files of this invocation handled so far that the front-end rejected
FailedSoFar == Cardinality({ j \in 1..loop_i : ~parse_ok[source_files[j]] })

\* save_checkpoint was called for the file count n of this invocation
CheckpointAttemptedAt(n) == \E j \in 1..Len(save_log) : save_log[j].tag = <<run, n>>

\* the loops of all entries of a result map, nested ones included
RECURSIVE RecursiveTotal(_)
RecursiveTotal(d) ==
  IF d = <<>> THEN 0 ELSE Len(AllLoopRecords(Head(d).value)) + RecursiveTotal(Tail(d))

(***************************************************************************)
(* C3 - a pass that ends in Phase 3 holds the same result map whether it   *)
(* started from nothing or resumed from a checkpoint: the map of a pass     *)
(* from scratch over the discovered files, each file's outcome being fixed. *)
(***************************************************************************)
C3_ResumeEqualsScratch ==
  last.op = "finish" => AsMap(analysis_results) = ScratchMap

\* a resumed pass that carried entries over, analysed further files and ended
C3_Witness ==
  /\ last.op = "finish"
  /\ resume_data.loaded
  /\ resume_data.source_files # <<>>
  /\ parsed \cap ParsedFiles # {}

(***************************************************************************)
(* C4 as stated - cancelled at a file boundary after i files were handled, *)
(* the checkpoint written holds exactly i entries and the partial output   *)
(* written reports files_processed = i and interrupted.                    *)
(***************************************************************************)
C4_CheckpointHoldsExactlyIEntries ==
  (last.op = "interrupt" /\ last.where = "boundary"
     /\ last.ckpt_w = "ok" /\ last.out_w = "ok") =>
    /\ Len(ckpt_file.data.source_files) = processed_count
    /\ out_file.data.metadata.files_processed = processed_count
    /\ "interrupted" \in out_file.data.metadata.keys

(***************************************************************************)
(* C4 amended - cancelled at a file boundary after i files were handled:   *)
(* a checkpoint write that succeeds leaves the in-memory result map, which *)
(* has one entry per handled file the front-end parsed (i less the parse   *)
(* failures), with files_processed = i; an output write that succeeds      *)
(* leaves the same map with files_processed = i and interrupted set.       *)
(***************************************************************************)
C4_InterruptLeavesHandledFiles ==
  (last.op = "interrupt" /\ last.where = "boundary") =>
    /\ last.ckpt_w = "ok" =>
         /\ ckpt_file.state = "complete"
         /\ ckpt_file.data.source_files = analysis_results
         /\ Len(ckpt_file.data.source_files) = processed_count - FailedSoFar
         /\ ckpt_file.data.metadata.files_processed = processed_count
         /\ "checkpoint" \in ckpt_file.data.metadata.keys
    /\ last.out_w = "ok" =>
         /\ out_file.state = "complete"
         /\ out_file.data.source_files = analysis_results
         /\ out_file.data.metadata.files_processed = processed_count
         /\ "interrupted" \in out_file.data.metadata.keys

\* cancelled after two or more files, one of them rejected, both writes done
C4_Witness ==
  /\ last.op = "interrupt"
  /\ last.where = "boundary"
  /\ last.ckpt_w = "ok"
  /\ last.out_w = "ok"
  /\ FailedSoFar > 0
  /\ analysis_results # <<>>

(***************************************************************************)
(* C5 - two checkpoint writes in a row from the same state (same           *)
(* invocation, same number of files handled) leave the checkpoint with the *)
(* same content, and a step that only generates a checkpoint or an output  *)
(* leaves the in-memory result map as it was.                              *)
(***************************************************************************)
C5_SameStateSameCheckpoint ==
  (Len(save_log) = 2 /\ save_log[1].ok /\ save_log[2].ok
     /\ save_log[1].tag = save_log[2].tag) =>
    save_log[1].content = save_log[2].content

C5_GenerationStep ==
  \/ last'.op = "finish"
  \/ last'.op = "interrupt" /\ last'.where = "boundary"
  \/ last'.op = "process_file" /\ last'.parse = "fail"

C5_CheckpointIdempotent ==
  /\ []C5_SameStateSameCheckpoint
  /\ [][C5_GenerationStep => analysis_results' = analysis_results]_vars

\* the cadence checkpoint followed by the interrupt path's, both written,
\* over a map that is not empty
C5_Witness ==
  /\ Len(save_log) = 2
  /\ save_log[1].ok
  /\ save_log[2].ok
  /\ save_log[1].tag = save_log[2].tag
  /\ save_log[2].content.source_files # <<>>
  /\ last.op = "interrupt"
  /\ last.where = "boundary"

(***************************************************************************)
(* C6 - in a resumed pass no file that is a key of the checkpoint is       *)
(* parsed again, every checkpoint entry stays in the result map with its   *)
(* value, and at the end every other discovered file has been processed.   *)
(***************************************************************************)
C6_ResumeSkipsCheckpointed ==
  resume_data.loaded =>
    /\ parsed \cap Keys(resume_data.source_files) = {}
    /\ \A k \in Keys(resume_data.source_files) :
         /\ k \in Keys(analysis_results)
         /\ Lookup(analysis_results, k) = Lookup(resume_data.source_files, k)
    /\ last.op = "finish" =>
         parsed = { discovered[j] : j \in 1..Len(discovered) }
                    \ Keys(resume_data.source_files)

\* a resumed pass with carried entries that processed other files and ended
C6_Witness ==
  /\ resume_data.loaded
  /\ Keys(resume_data.source_files) # {}
  /\ parsed # {}
  /\ last.op = "finish"
  /\ exit_code = 0

(***************************************************************************)
(* C7 - after the iteration of a file the front-end cannot parse, the file *)
(* is not a key of the result map, the running loop total is what it was,  *)
(* and the loop stands ready for the next file.                            *)
(***************************************************************************)
C7_ParseFailureSkipsFile ==
  (last.op = "process_file" /\ last.parse = "fail") =>
    /\ last.file \notin Keys(analysis_results)
    /\ total_loops = last.total_before
    /\ pc = "loop"
    /\ source_files[loop_i] = last.file

\* a rejected file after analysed ones, with a further file still to come
C7_Witness ==
  /\ last.op = "process_file"
  /\ last.parse = "fail"
  /\ analysis_results # <<>>
  /\ total_loops > 0
  /\ loop_i < Len(source_files)

(***************************************************************************)
(* C8 as stated - after the iteration of a file during whose walk an       *)
(* exception was raised, the file is not a key of the result map and the   *)
(* running loop total is what it was before the file.                      *)
(***************************************************************************)
C8_WalkExceptionSkipsFile ==
  (last.op = "process_file" /\ last.raised) =>
    /\ last.file \notin Keys(analysis_results)
    /\ total_loops = last.total_before
    /\ pc = "loop"

(***************************************************************************)
(* C9 as stated - at every file boundary the running loop total is the sum *)
(* over the entries of the result map of their loops counted recursively,  *)
(* in functions, methods and the global-loops list alike.                  *)
(***************************************************************************)
C9_TotalIsRecursiveSum ==
  pc = "loop" => total_loops = RecursiveTotal(analysis_results)

(***************************************************************************)
(* C10 - the iteration of the i-th file of an invocation attempts a        *)
(* checkpoint write exactly when i is a multiple of the checkpoint         *)
(* frequency or the file is the last one, whatever the file's outcome.     *)
(***************************************************************************)
C10_CheckpointCadence ==
  last.op = "process_file" =>
    (CheckpointAttemptedAt(loop_i)
       <=> (loop_i % freq = 0 \/ loop_i = Len(source_files)))

\* the last file is rejected, its index no multiple of the frequency, and
\* the checkpoint is attempted all the same
C10_Witness ==
  /\ last.op = "process_file"
  /\ last.parse = "fail"
  /\ loop_i = Len(source_files)
  /\ loop_i % freq # 0
  /\ CheckpointAttemptedAt(loop_i)


(***************************************************************************)
(* Reading an artifact                                                     *)
(***************************************************************************)
\* the data of the artifacts that can be loaded
CompleteData == { a.data : a \in { b \in {ckpt_file, out_file} : b.state = "complete" } }

\* a sequence without its repeated elements, in first-seen order
RECURSIVE Dedup(_)
Dedup(q) ==
  IF q = <<>> THEN <<>>
  ELSE LET front == Dedup(SubSeq(q, 1, Len(q) - 1))
       IN IF \E j \in 1..Len(front) : front[j] = q[Len(q)]
          THEN front ELSE Append(front, q[Len(q)])

\* the callee names of the call sites of a loop tree, depth first
RECURSIVE FlatCalls(_)
FlatCalls(loops) ==
  IF loops = <<>> THEN <<>>
  ELSE Head(loops).function_calls \o FlatCalls(Head(loops).nested_loops)
         \o FlatCalls(Tail(loops))

\* the methods of the classes of an AnalysisResult, keyed Class::Method
RECURSIVE QualifiedMethods(_)
QualifiedMethods(cs) ==
  IF cs = <<>> THEN <<>>
  ELSE [j \in 1..Len(Head(cs).methods) |->
          [key |-> Head(cs).name \o "::" \o Head(cs).methods[j].name,
           loops |-> Head(cs).methods[j].loops]] \o QualifiedMethods(Tail(cs))

\* the declarations of an AnalysisResult with their call-graph keys
QualifiedDecls(fa) ==
  [j \in 1..Len(fa.functions) |-> [key |-> fa.functions[j].name,
                                   loops |-> fa.functions[j].loops]]
    \o QualifiedMethods(fa.classes)

\* all declarations of a result map, file by file in map order
RECURSIVE AllDecls(_)
AllDecls(results) ==
  IF results = <<>> THEN <<>>
  ELSE QualifiedDecls(Head(results).value) \o AllDecls(Tail(results))

\* the call sites in loops of every declaration keyed nm, in map order
RECURSIVE CallsUnderKey(_, _)
CallsUnderKey(decls, nm) ==
  IF decls = <<>> THEN <<>>
  ELSE (IF Head(decls).key = nm THEN FlatCalls(Head(decls).loops) ELSE <<>>)
         \o CallsUnderKey(Tail(decls), nm)

\* the summary key of a loop type string
KindKey(ty) == ty \o "s"

\* all Loop records of a result map
RECURSIVE MapLoopRecords(_)
MapLoopRecords(results) ==
  IF results = <<>> THEN <<>>
  ELSE AllLoopRecords(Head(results).value) \o MapLoopRecords(Tail(results))

LevelsOf(recs) == [j \in 1..Len(recs) |-> recs[j].nesting_level]

(***************************************************************************)
(* C17 as stated - in every artifact, for every Declaration of the result  *)
(* map, the call-graph node under its name has calls = calls_in_loops =    *)
(* the callee names of the call sites of that Declaration's loop tree,     *)
(* without duplicates, in first-seen depth-first order, and called_by is   *)
(* empty.                                                                  *)
(***************************************************************************)
C17_NodeHoldsCallsOfItsDeclaration ==
  \A d \in CompleteData :
    \A j \in 1..Len(AllDecls(d.source_files)) :
      LET decl == AllDecls(d.source_files)[j]
          node == NodeOf(d.call_graph, decl.key)
      IN /\ IndexOf(d.call_graph, decl.key) # 0
         /\ node.calls = Dedup(FlatCalls(decl.loops))
         /\ node.calls_in_loops = node.calls
         /\ node.called_by = <<>>

(***************************************************************************)
(* C17 amended - in every artifact the call graph has one node per         *)
(* declaration name of the result map; its calls and calls_in_loops are    *)
(* equal, free of duplicates, and hold the callee names of the call sites  *)
(* of the loop trees of all Declarations of that name, taken file by file *)
(* in map order and depth first, in first-seen order; called_by is empty.  *)
(***************************************************************************)
C17_NodeHoldsCallsOfItsName ==
  \A d \in CompleteData :
    /\ { d.call_graph[j].name : j \in 1..Len(d.call_graph) }
         = { AllDecls(d.source_files)[j].key : j \in 1..Len(AllDecls(d.source_files)) }
    /\ \A j \in 1..Len(d.call_graph) :
         LET node == d.call_graph[j]
         IN /\ node.calls = Dedup(CallsUnderKey(AllDecls(d.source_files), node.name))
            /\ node.calls_in_loops = node.calls
            /\ node.called_by = <<>>
            /\ \A x, y \in 1..Len(node.calls) : node.calls[x] = node.calls[y] => x = y

\* a final output over two files that both declare f, with repeated call
\* sites, a call outside every loop and calls in nested loops
C17_Witness ==
  /\ out_file.state = "complete"
  /\ {2, 3} \subseteq Keys(out_file.data.source_files)
  /\ Len(NodeOf(out_file.data.call_graph, "f").calls) = 2
  /\ Len(CallsUnderKey(AllDecls(out_file.data.source_files), "f")) > 2

(***************************************************************************)
(* C18 as stated - in every artifact the count of analysis_summary's       *)
(* loop_types for each of the four loop kinds equals the number of Loop    *)
(* records of that kind in the result map.                                 *)
(***************************************************************************)
C18_PerKindCountsMatchRecords ==
  \A d \in CompleteData :
    \A ty \in {"for_loop", "while_loop", "do_while_loop", "range_for_loop"} :
      d.analysis_summary.loop_types[KindKey(ty)]
        = Len(SelectSeq(MapLoopRecords(d.source_files), LAMBDA l : l.type = ty))

(***************************************************************************)
(* C19 as stated - in every artifact the summary's sequence of nesting     *)
(* levels has one entry per Loop record of the result map, loops nested in *)
(* a global loop included, and max_depth is the maximum level of those     *)
(* records, 0 when there is none.                                          *)
(***************************************************************************)
C19_LevelsCoverEveryRecord ==
  \A d \in CompleteData :
    /\ Len(nesting_levels(d.source_files)) = Len(MapLoopRecords(d.source_files))
    /\ d.analysis_summary.max_depth = SeqMax(LevelsOf(MapLoopRecords(d.source_files)))


(***************************************************************************)
(* Reading the checkpoint and output artifacts of an invocation            *)
(***************************************************************************)
\* the files of this invocation that went through the whole try body before
\* the KeyboardInterrupt arrived, those carried over by a resume included
HandledAtInterrupt == start_index + last.at

\* every entry of the in-memory result map is in the artifact, with its value
HoldsResultMap(a) ==
  /\ a.state = "complete"
  /\ \A k \in Keys(analysis_results) :
       /\ k \in Keys(a.data.source_files)
       /\ Lookup(a.data.source_files, k) = Lookup(analysis_results, k)

\* an artifact that reads as the output of a completed run
ReadsAsCompleted(a) ==
  a.state = "complete" /\ a.data.metadata.keys \cap {"interrupted", "checkpoint"} = {}

(***************************************************************************)
(* C11 as stated - at every moment the checkpoint artifact, at either      *)
(* path, is absent or a complete snapshot; it is never a partially written *)
(* record, also after a write that failed or was cut short.                *)
(***************************************************************************)
C11_CheckpointAbsentOrComplete ==
  \A ck \in {ckpt_file, other_ckpt} :
    /\ ck.state \in {"absent", "complete"}
    /\ ck.state = "complete" =>
         \A k \in Keys(ck.data.source_files) :
           Lookup(ck.data.source_files, k) = FileAnalyses[k % 4]

(***************************************************************************)
(* C12 as stated - after a cancellation during the file loop whose two     *)
(* writes succeed, the checkpoint and the output both hold every entry of  *)
(* the result map, the output is marked interrupted, the checkpoint is     *)
(* still there, and files_processed and files_remaining of the output are  *)
(* the numbers of files handled and not yet handled.                       *)
(***************************************************************************)
C12_InterruptOutputIsAccurate ==
  (last.op = "interrupt" /\ last.ckpt_w = "ok" /\ last.out_w = "ok") =>
    /\ HoldsResultMap(ckpt_file)
    /\ HoldsResultMap(out_file)
    /\ "interrupted" \in out_file.data.metadata.keys
    /\ out_file.data.metadata.files_processed = HandledAtInterrupt
    /\ out_file.data.metadata.files_remaining = total_files - HandledAtInterrupt

(***************************************************************************)
(* C13 as stated - after a pass over all files that wrote the final output *)
(* (and whose clean-up did not fail), the output exists without the        *)
(* interrupted flag and no checkpoint remains: neither checkpoint_file nor *)
(* the checkpoint the run was resumed from.                                *)
(***************************************************************************)
C13_NoCheckpointAfterFullPass ==
  (last.op = "finish" /\ last.out_w = "ok" /\ last.unlink # "fails") =>
    /\ ReadsAsCompleted(out_file)
    /\ ckpt_file.state = "absent"
    /\ resume_data.from = "other" => other_ckpt.state = "absent"

(***************************************************************************)
(* C14 - when the write of the final output fails, main ends with status 1 *)
(* and never 0, and an output that reads as a completed run is at the path *)
(* only if it was there before the write.                                  *)
(***************************************************************************)
C14_FailedFinalStep == last'.op = "finish" /\ last'.out_w # "ok"

C14_FinalWriteFailureIsFatal ==
  [][C14_FailedFinalStep =>
       /\ pc' = "exit"
       /\ exit_code' = 1
       /\ ReadsAsCompleted(out_file') => out_file' = out_file]_vars

\* the final write of a pass with results is cut short and main returns 1
C14_Witness ==
  /\ last.op = "finish"
  /\ last.out_w = "dump_fails"
  /\ analysis_results # <<>>
  /\ out_file.state = "partial"
  /\ exit_code = 1

(***************************************************************************)
(* C15 - after a file step whose checkpoint write failed the run is still  *)
(* in the file loop with status 0, the result map holds the analysis of    *)
(* every parsed file handled so far, and the loop total and the processed  *)
(* count are those of the files handled; a pass that reaches Phase 3 after *)
(* a failed checkpoint write has handled every file and has attempted the  *)
(* final output.                                                           *)
(***************************************************************************)
C15_CheckpointFailureIsNotFatal ==
  /\ (last.op = "process_file" /\ last.ckpt_w \in {"open_fails", "dump_fails"}) =>
       /\ pc = "loop"
       /\ exit_code = 0
       /\ Keys(analysis_results)
            = Keys(initial_results(resume_data)) \cup (parsed \cap ParsedFiles)
       /\ \A k \in Keys(analysis_results) :
            Lookup(analysis_results, k) = FileAnalyses[k % 4]
       /\ total_loops = SumCounts(analysis_results)
       /\ processed_count = start_index + loop_i
  /\ (last.op = "finish" /\ \E j \in 1..Len(save_log) : ~save_log[j].ok) =>
       /\ parsed = { source_files[j] : j \in 1..Len(source_files) }
       /\ last.out_w \in WriteOutcomes

\* a checkpoint write fails after a file was analysed, files remain
C15_Witness ==
  /\ last.op = "process_file"
  /\ last.ckpt_w = "dump_fails"
  /\ last.parse = "ok"
  /\ ckpt_file.state = "partial"
  /\ loop_i < Len(source_files)

(***************************************************************************)
(* C16 - a resume from a checkpoint file that is missing or cannot be      *)
(* parsed ends main with status 1 with no file discovered or parsed, no    *)
(* checkpoint written and no output written.                               *)
(***************************************************************************)
C16_FailedResumeStep == last'.op = "resume" /\ last'.ckpt_state # "complete"

C16_BadCheckpointIsFatalAtStartup ==
  [][C16_FailedResumeStep =>
       /\ pc' = "exit"
       /\ exit_code' = 1
       /\ ~resume_data'.loaded
       /\ source_files' = <<>>
       /\ parsed' = {}
       /\ save_log' = <<>>
       /\ {ckpt_file', other_ckpt'} = {ckpt_file, other_ckpt}
       /\ {out_file', other_out'} = {out_file, other_out}]_vars

\* a resume from a file that does not parse, in a directory with files
C16_Witness ==
  /\ last.op = "resume"
  /\ last.ckpt_state = "partial"
  /\ discovered # <<>>
  /\ exit_code = 1

(***************************************************************************)
(* C20 as stated - when the interrupt path starts, the processed count is  *)
(* the number of files that went through their whole step, and the running *)
(* loop total is the total of the entries of the result map.               *)
(***************************************************************************)
C20_InterruptOnlyAtFileBoundary ==
  last.op = "interrupt" =>
    /\ processed_count = HandledAtInterrupt
    /\ total_loops = SumCounts(analysis_results)

(***************************************************************************)
(* C21 as stated - right after a resume that loaded a checkpoint, the       *)
(* processed count and the loop total are the files_processed and the      *)
(* total_loops_found the checkpoint recorded, so neither went down.         *)
(***************************************************************************)
C21_ResumeSeedsFromCheckpoint ==
  (last.op = "resume" /\ resume_data.loaded /\ pc = "loop") =>
    /\ processed_count = resume_data.metadata.files_processed
    /\ total_loops = resume_data.metadata.total_loops_found
    /\ processed_count >= resume_data.metadata.files_processed
    /\ total_loops >= resume_data.metadata.total_loops_found

(***************************************************************************)
(* Reading the walk                                                        *)
(***************************************************************************)
RECURSIVE ContextOf(_, _)
\* the parent_context _analyze_cursor is called with for node n
ContextOf(t, n) ==
  IF t[n].parent = 0 THEN NoContext
  ELSE ChildContext(t, t[n].parent, ContextOf(t, t[n].parent))

RECURSIVE Visited(_, _)
\* _analyze_cursor is called for node n: it is called for the parent, the
\* parent gets to its loop over the children, and no call for an earlier
\* child lets an exception out
Visited(t, n) ==
  LET p == t[n].parent
  IN IF p = 0 THEN TRUE
     ELSE /\ Visited(t, p)
          /\ ~InspectionRaises(t, p, ContextOf(t, p))
          /\ \A s \in 1..(n - 1) : t[s].parent = p => ~HandlerRaises(t, s)

\* _analyze_cursor is called for node n and gets to its dispatch
MetByWalker(t, n) == Visited(t, n) /\ ~InspectionRaises(t, n, ContextOf(t, n))

HasRecord(loops, n) == \E j \in 1..Len(loops) : loops[j].loop_id = n

\* the containers whose loop list holds a record of loop node n
ContainersOf(fa, n) ==
  { <<"function", i, 0>> : i \in { j \in 1..Len(fa.functions) :
                                     HasRecord(fa.functions[j].loops, n) } }
  \cup { <<"method", x[1], x[2]>> :
           x \in { y \in (1..Len(fa.classes)) \X (1..MaxNodes) :
                     /\ y[2] <= Len(fa.classes[y[1]].methods)
                     /\ HasRecord(fa.classes[y[1]].methods[y[2]].loops, n) } }
  \cup (IF HasRecord(fa.global_loops, n) THEN { <<"global", 0, 0>> } ELSE {})

\* the span of a container holds the line
SpanHolds(fa, c, line) ==
  CASE c[1] = "function" ->
         fa.functions[c[2]].start_line <= line /\ line <= fa.functions[c[2]].end_line
    [] c[1] = "method" ->
         /\ fa.classes[c[2]].methods[c[3]].start_line <= line
         /\ line <= fa.classes[c[2]].methods[c[3]].end_line
    [] OTHER -> TRUE

(***************************************************************************)
(* C22 as stated - when the walk of a file ends, every loop node the       *)
(* walker met sits in the loop list of exactly one container: a            *)
(* declaration whose span holds the loop's start line when the walker had  *)
(* a declaration open, the global list when it had none.                   *)
(***************************************************************************)
C22_LoopHasOneContainer ==
  wpc = "done" =>
    \A n \in LoopNodes(tree) :
      MetByWalker(tree, n) =>
        /\ Cardinality(ContainersOf(file_analysis, n)) = 1
        /\ \A c \in ContainersOf(file_analysis, n) :
             /\ (c[1] = "global") = (ContextOf(tree, n).type = "none")
             /\ SpanHolds(file_analysis, c, StartLine(tree, n))

(***************************************************************************)
(* Reading a Loop record against the tree                                  *)
(***************************************************************************)
Descendants(t, n) == { d \in 1..Len(t) : n \in Ancestors(t, d) }

\* the kinds of node the body-walk makes a record of
SiteKinds == {"BINARY_OPERATOR", "UNARY_OPERATOR", "CALL_EXPR", "DECL_REF_EXPR"}

\* the body statement of loop node n in the child order of the front-end:
\* the first child of a do-while, the last child of every other loop
BodyStatement(t, n) ==
  LET kids == Children(t, n)
  IN IF t[n].kind = "DO_STMT" THEN kids[1] ELSE kids[Len(kids)]

\* the innermost loop that lexically encloses node s, or 0
InnermostLoop(t, s) ==
  LET ls == { a \in Ancestors(t, s) : t[a].kind \in LoopKinds }
  IN IF ls = {} THEN 0 ELSE CHOOSE a \in ls : \A b \in ls : b <= a

\* the operations, memory accesses and call sites in the body of loop node n
BodySites(t, n) ==
  { s \in Descendants(t, n) :
      /\ t[s].kind \in SiteKinds
      /\ (s = BodyStatement(t, n) \/ BodyStatement(t, n) \in Ancestors(t, s)) }

\* the lines of the operation, call and memory-access records a Loop
\* record holds itself
RecordedLines(l) ==
  UNION { { l.operations[k][i].line : i \in 1..Len(l.operations[k]) } :
          k \in DOMAIN l.operations }
  \cup { l.memory_access.reads[i].line : i \in 1..Len(l.memory_access.reads) }
  \cup { l.memory_access.writes[i].line : i \in 1..Len(l.memory_access.writes) }

\* the sites that follow node n among its siblings
LaterSiblingSites(t, n) ==
  { s \in (n + 1)..Len(t) : t[s].parent = t[n].parent /\ t[s].kind \in SiteKinds }

(***************************************************************************)
(* C23 as stated - when the walk of a file ends, every entry C of a Loop   *)
(* record P's nested_loops has nesting level one above P's, every          *)
(* operation, memory access and call site in the body of C is recorded in  *)
(* the record of the innermost loop around it and not in P, and the sites  *)
(* that follow C among its siblings are recorded in P.                     *)
(***************************************************************************)
C23_NestedLoopOwnsItsSites ==
  wpc = "done" =>
    \A i \in 1..Len(AllLoopRecords(file_analysis)) :
      LET P == AllLoopRecords(file_analysis)[i]
      IN \A j \in 1..Len(P.nested_loops) :
           LET C == P.nested_loops[j]
               below == FlattenLoop(C)
           IN /\ C.nesting_level = P.nesting_level + 1
              /\ \A s \in BodySites(tree, C.loop_id) :
                   /\ s \notin RecordedLines(P)
                   /\ \E q \in 1..Len(below) :
                        /\ below[q].loop_id = InnermostLoop(tree, s)
                        /\ s \in RecordedLines(below[q])
              /\ LaterSiblingSites(tree, C.loop_id) \subseteq RecordedLines(P)

\* the header expressions of a for loop: every child but the body
HeaderTexts(t, n) ==
  LET kids == Children(t, n)
  IN { Strip(SourceText(t, kids[j])) : j \in 1..(Len(kids) - 1) }

(***************************************************************************)
(* C24 as stated - when the walk of a file ends, the bounds of every Loop  *)
(* record follow its kind: a for loop has each of initialization,          *)
(* condition and increment empty or the text of a header expression, never *)
(* of its body, and with a full header the three in order; a while loop    *)
(* has only condition, the text of its first child; a do-while loop only   *)
(* condition, the text of its last child; a range-for has all three empty; *)
(* estimated_iterations is "unknown".                                      *)
(***************************************************************************)
C24_BoundsByLoopKind ==
  wpc = "done" =>
    \A i \in 1..Len(AllLoopRecords(file_analysis)) :
      LET l == AllLoopRecords(file_analysis)[i]
          b == l.loop_bounds
          kids == Children(tree, l.loop_id)
          text(c) == Strip(SourceText(tree, c))
      IN /\ b.estimated_iterations = "unknown"
         /\ l.type = "for_loop" =>
              /\ {b.initialization, b.condition, b.increment}
                   \subseteq HeaderTexts(tree, l.loop_id) \cup {<<>>}
              /\ Len(kids) = 4 =>
                   /\ b.initialization = text(kids[1])
                   /\ b.condition = text(kids[2])
                   /\ b.increment = text(kids[3])
         /\ l.type = "while_loop" =>
              /\ b.condition = text(kids[1])
              /\ b.initialization = <<>> /\ b.increment = <<>>
         /\ l.type = "do_while_loop" =>
              /\ b.condition = text(kids[Len(kids)])
              /\ b.initialization = <<>> /\ b.increment = <<>>
         /\ l.type = "range_for_loop" =>
              b.initialization = <<>> /\ b.condition = <<>> /\ b.increment = <<>>

\* the nodes of the body of loop node n that belong to n itself, not to a
\* loop nested in it
OwnBodyNodes(t, n) ==
  { s \in Descendants(t, n) :
      /\ InnermostLoop(t, s) = n
      /\ (s = BodyStatement(t, n) \/ BodyStatement(t, n) \in Ancestors(t, s)) }

(***************************************************************************)
(* C30 as stated - when the walk of a file ends, every Loop record, of     *)
(* whatever kind, holds the operations, memory accesses and call sites of  *)
(* its loop's body statement and a nested record for every loop directly   *)
(* in that body; the record of a do-while loop holds no record made from   *)
(* its condition expression.                                               *)
(***************************************************************************)
C30_BodyWalkCoversBody ==
  wpc = "done" =>
    \A i \in 1..Len(AllLoopRecords(file_analysis)) :
      LET l == AllLoopRecords(file_analysis)[i]
          n == l.loop_id
          kids == Children(tree, n)
      IN /\ \A s \in OwnBodyNodes(tree, n) :
              /\ tree[s].kind \in SiteKinds => s \in RecordedLines(l)
              /\ tree[s].kind \in LoopKinds => HasRecord(l.nested_loops, s)
         /\ l.type = "do_while_loop" => kids[Len(kids)] \notin RecordedLines(l)

\* node n lies in the subtree of no node whose inspection raises, and its
\* own inspection does not raise
OutsideFailures(t, n) ==
  \A a \in Ancestors(t, n) \cup {n} : ~InspectionRaises(t, a, ContextOf(t, a))

(***************************************************************************)
(* C27 as stated - a failure is contained at the node it is raised for:    *)
(* when the walk of a file ends, every loop node outside the subtrees of   *)
(* the failing nodes has been counted and every function and class outside *)
(* them has its entry in the AnalysisResult.                               *)
(***************************************************************************)
C27_FailureContainedAtNode ==
  wpc = "done" =>
    /\ file_analysis.total_loops =
         Cardinality({ n \in LoopNodes(tree) : OutsideFailures(tree, n) })
    /\ \A n \in 1..Len(tree) :
         OutsideFailures(tree, n) =>
           /\ tree[n].kind = "FUNCTION_DECL" => IndexOf(file_analysis.functions, tree[n].name) # 0
           /\ tree[n].kind = "CLASS_DECL" => IndexOf(file_analysis.classes, tree[n].name) # 0

\* the operation records of a Loop record, each with the key of its list
OperationRecords(l) ==
  UNION { { <<k, i>> : i \in 1..Len(l.operations[k]) } : k \in DOMAIN l.operations }

(***************************************************************************)
(* C25 as stated - after the body-walk met a binary-operator node the Loop *)
(* record holds exactly one operation record; when the text matches a      *)
(* class (arithmetic first, then logical, then bitwise) the record has     *)
(* that class and is in the list of that name.  After a unary-operator     *)
(* node it holds exactly one record, in the list "unary".                  *)
(***************************************************************************)
C25_OperationStoredByClass ==
  body_walk.pc = "walked" =>
    LET l == body_walk.loop_info
        class == BinaryOpType(body_walk.source_text)
    IN /\ body_walk.cursor_kind = "BINARY_OPERATOR" =>
            /\ Cardinality(OperationRecords(l)) = 1
            /\ class \in {"arithmetic", "logical", "bitwise"} =>
                 /\ class \in DOMAIN l.operations
                 /\ Len(l.operations[class]) = 1
                 /\ l.operations[class][1].type = class
       /\ body_walk.cursor_kind = "UNARY_OPERATOR" =>
            /\ Cardinality(OperationRecords(l)) = 1
            /\ "unary" \in DOMAIN l.operations
            /\ Len(l.operations["unary"]) = 1

\* character c occurs in the text
HasChar(text, c) == \E i \in 1..Len(text) : text[i] = c

\* the characters c, d occur next to each other in the text
HasPair(text, c, d) == \E i \in 1..(Len(text) - 1) : text[i] = c /\ text[i + 1] = d

\* the nodes _analyze_memory_access is called for
MemoryKinds == {"DECL_REF_EXPR", "ARRAY_SUBSCRIPT_EXPR"}

ProgressArtifact(a) ==
  /\ a.state = "complete"
  /\ a.data.metadata.keys \cap {"checkpoint", "interrupted"} # {}

\* the progress counts of the artifact add up to total and bound its map
ProgressCountsOK(a, total) ==
  /\ a.data.metadata.files_processed + a.data.metadata.files_remaining = total
  /\ 0 <= a.data.metadata.files_remaining
  /\ Len(a.data.source_files) <= a.data.metadata.files_processed

(***************************************************************************)
(* C28 as stated - in every checkpoint and every interrupted output        *)
(* files_processed + files_remaining is the number of candidate files,     *)
(* files_remaining is not negative, and the result map has at most         *)
(* files_processed entries.                                                *)
(***************************************************************************)
C28_ProgressCountsAddUp ==
  \A a \in {ckpt_file, out_file, other_ckpt, other_out} :
    ProgressArtifact(a) => ProgressCountsOK(a, Len(discovered))


\* the run went through the file loop and has ended, by Phase 3 or by the
\* interrupt path
EndedAfterLoop == pc = "exit" /\ last.op \in {"finish", "interrupt"}

(***************************************************************************)
(* C29 as stated - the checkpoint is deleted only after the final output   *)
(* was written successfully, and when a run that went through the file     *)
(* loop has ended, the checkpoint (at the path of the run or at the path   *)
(* it was resumed from) or the output holds every entry of the result map. *)
(***************************************************************************)
C29_OneArtifactHoldsResults ==
  EndedAfterLoop =>
    /\ last.unlink = "ok" => last.out_w = "ok"
    /\ analysis_results # <<>> =>
         \E a \in {ckpt_file, other_ckpt, out_file} : HoldsResultMap(a)

=============================================================================
